---- MODULE Spec2Model ----
(***************************************************************************)
(* SmartLiving: telemetry ingestion (processTelemetry), the automation     *)
(* rule evaluation it runs (checkAutomationRules, evaluateTrigger,         *)
(* executeAction), the command API (sendDeviceCommand) and the stored      *)
(* procedure dbo.InsertTelemetry, as a state machine over the SQL tables.  *)
(* One invocation of processTelemetry runs per inbound message.  Every     *)
(* statement of the database, every publication to SignalR and every send  *)
(* to the IoT hub is one step, so the invocations interleave at these;     *)
(* the statements between them touch only the locals of the invocation.    *)
(***************************************************************************)
EXTENDS Integers, Sequences, FiniteSets, Bags, TLC

\* ------------------------------------------------------------------ bounds
\* concurrent invocations of processTelemetry
NumEvents == 2
\* the clock (GETUTCDATE(), Date.now()) runs from 1 to MaxClock
MaxClock == 2
\* HTTP requests served by sendDeviceCommand
MaxRequests == 1
\* calls of dbo.RegisterDevice
MaxRegistrations == 1

Invocations == 1..NumEvents

\* ------------------------------------------------------- values of columns
\* SQL NULL in a DATETIME2 column (LastSeen, LastExecuted, SentAt, CompletedAt)
NoTime == 0
\* a field the message does not carry (undefined in JavaScript)
Undefined == -1
\* the result of parseFloat on something that is no number
NaN == -2

\* (variant of parseFloat: what is no number counts as 0)
parseFloatOrZero(x) == IF x = Undefined \/ x = NaN THEN 0 ELSE x

\* parseFloat(x): a number stays what it is, anything else is NaN
parseFloat(x) == IF x = Undefined \/ x = NaN THEN NaN ELSE x

\* -------------------------------------------------------------- the tables
\* the UserId of the dbo.Users sample row (user@example.com)
SampleUser == "sample-user"

\* a second user of the store, who owns no device
OtherUser == "other-user"

\* dbo.Users: Email -> UserId
Users ==
    [email \in {"user@example.com", "other@example.com"} |->
       IF email = "user@example.com" THEN SampleUser ELSE OtherUser]

\* dbo.Devices sample rows
SampleDevices == {"living-room-temp", "kitchen-humidity", "bedroom-light", "garage-door"}

SampleDeviceNames ==
    [d \in SampleDevices |->
       CASE d = "living-room-temp" -> "Living Room Temperature Sensor"
         [] d = "kitchen-humidity" -> "Kitchen Humidity Sensor"
         [] d = "bedroom-light"    -> "Bedroom Smart Light"
         [] d = "garage-door"      -> "Garage Door Controller"]

\* a row of dbo.Devices as INSERT leaves it: IsOnline DEFAULT 0, LastSeen NULL
DeviceRow(name, user) ==
    [DeviceName |-> name, UserId |-> user, IsOnline |-> FALSE, LastSeen |-> NoTime]

\* a device id no row of dbo.Devices carries
UnknownDevice == "attic-fan"

SensorThreshold(d, m, op, th) ==
    [type |-> "sensor_threshold", device |-> d, messageType |-> m,
     operator |-> op, threshold |-> th, status |-> ""]

DeviceStatus(d, s) ==
    [type |-> "device_status", device |-> d, messageType |-> "",
     operator |-> "", threshold |-> Undefined, status |-> s]

DeviceCommandAction(d, c, b) ==
    [type |-> "device_command", device |-> d, command |-> c,
     parameters |-> [brightness |-> b], message |-> ""]

\* a trigger of a type evaluateTrigger has no case for, as the 'time' trigger
\* of the sample rule
TimeTrigger ==
    [type |-> "time", device |-> "", messageType |-> "",
     operator |-> "", threshold |-> Undefined, status |-> ""]

NotificationAction(m) ==
    [type |-> "notification", device |-> "", command |-> "",
     parameters |-> [brightness |-> Undefined], message |-> m]

\* The static columns of dbo.AutomationRules (RuleName, TriggerConditions,
\* Actions): the JSON text of a column is kept as the value it parses to, or
\* Malformed when JSON.parse throws on it.
RuleIds == {1, 2, 3, 4, 5}

RuleRows ==
    [r \in RuleIds |->
       CASE r = 1 ->
              [RuleName |-> "Climate",
               TriggerConditions |->
                 [malformed |-> FALSE,
                  triggers |-> << SensorThreshold("living-room-temp", "temperature", ">", 25),
                                  DeviceStatus("bedroom-light", "off"),
                                  SensorThreshold("bedroom-light", "off", ">=", 25) >>],
               Actions |->
                 [malformed |-> FALSE,
                  actions |-> << DeviceCommandAction("bedroom-light", "turn_on", 70),
                                 NotificationAction("climate") >>]]
         [] r = 2 ->
              [RuleName |-> "Broken",
               TriggerConditions |-> [malformed |-> TRUE, triggers |-> << >>],
               Actions |-> [malformed |-> FALSE, actions |-> << >>]]
         [] r = 3 ->
              [RuleName |-> "Evening Light Automation",
               TriggerConditions |->
                 [malformed |-> FALSE,
                  triggers |-> << DeviceStatus("bedroom-light", "off") >>],
               Actions |->
                 [malformed |-> FALSE,
                  actions |-> << DeviceCommandAction("bedroom-light", "turn_on", 70) >>]]
         [] r = 4 ->
              [RuleName |-> "Disabled",
               TriggerConditions |->
                 [malformed |-> FALSE,
                  triggers |-> << DeviceStatus("bedroom-light", "off") >>],
               Actions |->
                 [malformed |-> FALSE,
                  actions |-> << DeviceCommandAction("garage-door", "open", Undefined) >>]]
         [] r = 5 ->
              [RuleName |-> "Sunset",
               TriggerConditions |->
                 [malformed |-> FALSE,
                  triggers |-> << TimeTrigger,
                                  SensorThreshold("living-room-temp", "temperature", "!=", 25),
                                  SensorThreshold("bedroom-light", "off", "=", 30) >>],
               Actions |->
                 [malformed |-> FALSE,
                  actions |-> << DeviceCommandAction("bedroom-light", "turn_on", Undefined) >>]]]

\* the rules whose IsActive column is 1 when the run starts
InitiallyActive == {1, 2, 3}

\* the rules whose IsActive column is 1 in the runs that follow the rule made
\* of triggers evaluateTrigger does not know
SunsetActive == {3, 5}

\* ------------------------------------------------------ inbound messages
\* a field of the message body that is not there (unit, additionalData)
Absent == "undefined"

\* NULL in a text column of the store
Null == "NULL"

Message(d, t, m, v, u, a) ==
    [deviceId |-> d, enqueuedTime |-> t, messageType |-> m, value |-> v,
     unit |-> u, additionalData |-> a]

Messages ==
    << Message("living-room-temp", 1, "temperature", 30, "C", Absent),
       Message("living-room-temp", 2, "temperature", 20, "C", "{battery: 90}"),
       Message("bedroom-light", 2, "off", 30, Absent, ""),
       Message("bedroom-light", Undefined, "", Undefined, Absent, Absent),
       Message(UnknownDevice, 1, "temperature", 30, "C", Absent) >>

VARIABLES
    clock,            \* the latest time GETUTCDATE() or Date.now() has returned
    Devices,          \* dbo.Devices: DeviceId -> [DeviceName, UserId, IsOnline, LastSeen]
    DeviceTelemetry,  \* dbo.DeviceTelemetry: the bag of its rows (no statement
                      \* of the source reads TelemetryId)
    AutomationRules,  \* dbo.AutomationRules: RuleId -> [IsActive, ExecutionCount, LastExecuted]
    DeviceCommands,   \* dbo.DeviceCommands: the rows in insertion order
    signalR,          \* the bag of what sendToAll has published
    iotHub,           \* what iotHub.send has handed to the device transport
    responses,        \* the HTTP responses of sendDeviceCommand
    reports,          \* the delivery reports of the device transport, as received
    inv,              \* the invocations of processTelemetry: their locals
    trace,            \* per invocation: what it has called and logged so far
    evaluated,        \* the latest call of evaluateTrigger on its own, with what
                      \* it returned
    registered,       \* the calls of dbo.RegisterDevice, in the order of their MERGE
    simulator,        \* the device simulator: its DeviceManager and its devices
    dbPool            \* the module variable pool of getDbPool and its callers

vars == << clock, Devices, DeviceTelemetry, AutomationRules, DeviceCommands,
           signalR, iotHub, responses, reports, inv, trace, evaluated, registered,
           simulator, dbPool >>


\* GETUTCDATE() and Date.now(): the time read is not before any time read
\* earlier, and it is the latest time read from then on
ReadClock(now) ==
    /\ now \in clock..MaxClock
    /\ clock' = now

\* ------------------------------------------------------------ evaluateTrigger
\* (variant of Compare: '>' and '<' accept the threshold itself)
CompareNonStrict(op, value, threshold) ==
    IF value = NaN \/ threshold = NaN THEN FALSE
    ELSE CASE op = ">"  -> value >= threshold
           [] op = "<"  -> value <= threshold
           [] op = ">=" -> value >= threshold
           [] op = "<=" -> value <= threshold
           [] op = "==" -> value = threshold
           [] OTHER     -> FALSE

\* the inner switch on trigger.operator; every comparison with NaN is false
Compare(op, value, threshold) ==
    IF value = NaN \/ threshold = NaN THEN FALSE
    ELSE CASE op = ">"  -> value > threshold
           [] op = "<"  -> value < threshold
           [] op = ">=" -> value >= threshold
           [] op = "<=" -> value <= threshold
           [] op = "==" -> value = threshold
           [] OTHER     -> FALSE

\* (variant of evaluateTrigger: a device_status trigger looks at the device only)
evaluateTriggerStatusByDevice(trigger, telemetryData) ==
    CASE trigger.type = "sensor_threshold" ->
           IF /\ trigger.device = telemetryData.deviceId
              /\ trigger.messageType = telemetryData.messageType
           THEN Compare(trigger.operator, parseFloat(telemetryData.value),
                        parseFloat(trigger.threshold))
           ELSE FALSE
      [] trigger.type = "device_status" -> trigger.device = telemetryData.deviceId
      [] OTHER -> FALSE

\* (variant of evaluateTrigger: the default case of the switch returns true)
evaluateTriggerDefaultMatches(trigger, telemetryData) ==
    CASE trigger.type = "sensor_threshold" ->
           IF /\ trigger.device = telemetryData.deviceId
              /\ trigger.messageType = telemetryData.messageType
           THEN Compare(trigger.operator, parseFloat(telemetryData.value),
                        parseFloat(trigger.threshold))
           ELSE FALSE
      [] trigger.type = "device_status" ->
           /\ trigger.device = telemetryData.deviceId
           /\ trigger.status = telemetryData.messageType
      [] OTHER -> TRUE

evaluateTrigger(trigger, telemetryData) ==
    CASE trigger.type = "sensor_threshold" ->
           IF /\ trigger.device = telemetryData.deviceId
              /\ trigger.messageType = telemetryData.messageType
           THEN Compare(trigger.operator, parseFloat(telemetryData.value),
                        parseFloat(trigger.threshold))
           ELSE FALSE
      [] trigger.type = "device_status" ->
           /\ trigger.device = telemetryData.deviceId
           /\ trigger.status = telemetryData.messageType
      [] OTHER -> FALSE

\* ------------------------------------------------------------------- Init
NoTelemetry ==
    [deviceId |-> "", timestamp |-> NoTime, messageType |-> "", value |-> Undefined,
     unit |-> Absent, additionalData |-> Absent]

NewInvocation(m) ==
    [pc |-> "start", message |-> m, telemetryData |-> NoTelemetry,
     rules |-> << >>, ri |-> 0, ti |-> 0, ai |-> 0,
     outcome |-> "", caught |-> "", thrown |-> ""]

\* ------------------------------------------------------- the device simulator
\* the simulated devices (three of the deviceConfigs), in the order of the Map
SimulatedDevices == << "living-room-temp", "kitchen-humidity", "bedroom-light" >>

\* new IoTDeviceSimulator(connectionString, config): telemetryInterval 0 is
\* null; a config without isOn and brightness reads as off, without a number
IoTDeviceSimulator(d) ==
    [isRunning |-> FALSE, telemetryInterval |-> 0,
     isOn |-> FALSE, brightness |-> IF d = "bedroom-light" THEN 0 ELSE Undefined,
     sent |-> << >>]

\* new DeviceManager() after initialize(): timers holds the handles setInterval
\* has returned and clearInterval has not cleared, issued counts the handles
NewSimulator ==
    [isRunning |-> FALSE,
     devices |-> [k \in DOMAIN SimulatedDevices |-> IoTDeviceSimulator(SimulatedDevices[k])],
     timers |-> {}, issued |-> 0, handled |-> {}]

\* ------------------------------------------------------------------ getDbPool
\* the concurrent callers of getDbPool
MaxCallers == 4

Callers == 1..MaxCallers

\* let pool = null, and no call of getDbPool yet
ColdStart ==
    [pool |-> "null", callers |-> [c \in Callers |-> [pc |-> "idle", got |-> ""]]]

\* The invocations run the same code, so the messages are handed out in the
\* order of the list: every multiset of messages is covered once.
InitWith(active) ==
    /\ clock = 1
    /\ Devices = [d \in SampleDevices |-> DeviceRow(SampleDeviceNames[d], SampleUser)]
    /\ DeviceTelemetry = EmptyBag
    /\ AutomationRules =
         [r \in RuleIds |-> [IsActive |-> (r \in active),
                             ExecutionCount |-> 0, LastExecuted |-> NoTime]]
    /\ DeviceCommands = << >>
    /\ signalR = EmptyBag
    /\ iotHub = {}
    /\ responses = << >>
    /\ reports = << >>
    /\ \E f \in [Invocations -> 1..Len(Messages)] :
         /\ \A p, q \in Invocations : p < q => f[p] <= f[q]
         /\ inv = [p \in Invocations |-> NewInvocation(Messages[f[p]])]
    /\ trace = [p \in Invocations |-> << >>]
    /\ evaluated = << >>
    /\ registered = << >>
    /\ simulator = NewSimulator
    /\ dbPool = ColdStart

Init == InitWith(InitiallyActive)

InitSunset == InitWith(SunsetActive)

\* ------------------------------------------------------------ local helpers
Event(e, r, i) == [ev |-> e, rule |-> r, idx |-> i]

Log(p, e) == trace' = [trace EXCEPT ![p] = Append(@, e)]

\* (variant of CatchTelemetryError: the catch logs the error and throws it on)
CatchTelemetryErrorRethrows(err) == err

\* what the catch of processTelemetry lets through to the caller of the
\* handler: it logs the error and returns normally
CatchTelemetryError(err) == ""

\* (variant of TelemetryCatch: the error is logged where it occurs and the
\* handler goes on with the broadcast)
TelemetryCatchGoesOn(l, err) ==
    [l EXCEPT !.pc = "sendToAll", !.caught = err]

\* processTelemetry, catch (error): context.log.error, then the handler returns
TelemetryCatch(l, err) ==
    [l EXCEPT !.pc = "done", !.outcome = "error", !.caught = err,
              !.thrown = CatchTelemetryError(err)]

\* checkAutomationRules has returned: the log line of processTelemetry, then
\* the handler returns
TelemetryProcessed(l) ==
    [l EXCEPT !.pc = "done", !.outcome = "processed", !.ri = 0, !.ti = 0, !.ai = 0]

\* the for loop over rulesResult.recordset is at its i-th row
GotoRule(l, i) ==
    IF i <= Len(l.rules)
    THEN [l EXCEPT !.pc = "rule", !.ri = i, !.ti = 0, !.ai = 0]
    ELSE TelemetryProcessed(l)

\* (variant of RuleCatch: the error of one rule leaves the loop over the rules)
RuleCatchLeavesLoop(l) == TelemetryProcessed(l)

\* (variant of RuleCatch: the error of a rule leaves checkAutomationRules)
RuleCatchRethrows(l) == TelemetryCatch(l, "RuleError")

\* catch (ruleError): the error is logged and the loop goes on with the next row
RuleCatch(l) == GotoRule(l, l.ri + 1)

\* break: the trigger loop of the rule that fired is left
Break(l) == GotoRule(l, l.ri + 1)

CurrentRule(l) == l.rules[l.ri]

Triggers(r) == RuleRows[r].TriggerConditions.triggers

Actions(r) == RuleRows[r].Actions.actions

\* the rows SELECT ... WHERE IsActive = 1 returns, in RuleId order
RECURSIVE SeqOfSet(_)
SeqOfSet(S) ==
    IF S = {} THEN << >>
    ELSE LET m == CHOOSE x \in S : \A y \in S : x <= y
         IN << m >> \o SeqOfSet(S \ {m})

ActiveRules == SeqOfSet({r \in RuleIds : AutomationRules[r].IsActive})


\* ------------------------------------------------------------ processTelemetry
\* (variant of EventTime: the time of receipt is taken for every event)
EventTimeOfReceipt(enqueuedTime, now) == now

\* line 46: new Date(message.enqueuedTime || Date.now())
EventTime(enqueuedTime, now) ==
    IF enqueuedTime = Undefined THEN now ELSE enqueuedTime

\* lines 44-51: the normalized event
Normalize(p) ==
    /\ inv[p].pc = "start"
    /\ \E now \in clock..MaxClock :
         LET m == inv[p].message
             td == [deviceId |-> m.deviceId,
                    timestamp |-> EventTime(m.enqueuedTime, now),
                    messageType |-> IF m.messageType = "" THEN "unknown"
                                    ELSE m.messageType,
                    value |-> m.value,
                    unit |-> m.unit,
                    additionalData |-> m.additionalData]
         IN /\ IF m.enqueuedTime = Undefined THEN ReadClock(now)
               ELSE now = clock /\ UNCHANGED clock
            /\ inv' = [inv EXCEPT ![p] = [@ EXCEPT !.pc = "spVerify", !.telemetryData = td]]
    /\ UNCHANGED << evaluated, registered, Devices, DeviceTelemetry, AutomationRules, DeviceCommands,
                    signalR, iotHub, responses, reports, trace >>
    /\ UNCHANGED << simulator, dbPool >>

\* dbo.InsertTelemetry, "Verify device exists": RAISERROR reaches the catch of
\* processTelemetry as a thrown error
SpVerifyDevice(p) ==
    /\ inv[p].pc = "spVerify"
    /\ inv' = [inv EXCEPT ![p] =
                 IF inv[p].telemetryData.deviceId \in DOMAIN Devices
                 THEN [@ EXCEPT !.pc = "spInsert"]
                 ELSE TelemetryCatch(@, "DeviceNotFound")]
    /\ UNCHANGED << evaluated, registered, clock, Devices, DeviceTelemetry, AutomationRules, DeviceCommands,
                    signalR, iotHub, responses, reports, trace >>
    /\ UNCHANGED << simulator, dbPool >>

\* JSON.stringify of an object, the object given by its literal
JSONStringify(object) == "'" \o object \o "'"

\* lines 61-62: telemetryData.additionalData ? JSON.stringify(...) : null
AdditionalDataInput(additionalData) ==
    IF additionalData \in {Absent, ""} THEN Null ELSE JSONStringify(additionalData)

\* line 60: .input('Unit', sql.NVarChar(50), telemetryData.unit)
UnitInput(unit) == IF unit = Absent THEN Null ELSE unit

\* dbo.InsertTelemetry, INSERT INTO dbo.DeviceTelemetry
TelemetryRow(p, td) ==
    [DeviceId |-> td.deviceId, Timestamp |-> td.timestamp,
     MessageType |-> td.messageType, Value |-> td.value,
     Unit |-> UnitInput(td.unit),
     AdditionalData |-> AdditionalDataInput(td.additionalData), event |-> p]

\* (variant of ForeignKey: the constraint is not enforced)
ForeignKeyUnchecked(deviceId, devices) == TRUE

\* FOREIGN KEY (DeviceId) REFERENCES dbo.Devices(DeviceId): the store accepts a
\* row only when its device has a row at the time of the INSERT
ForeignKey(deviceId, devices) == deviceId \in DOMAIN devices

\* an INSERT the constraint rejects throws, which ends in the catch of
\* processTelemetry
SpInsert(p) ==
    /\ inv[p].pc = "spInsert"
    /\ IF ForeignKey(inv[p].telemetryData.deviceId, Devices)
       THEN /\ DeviceTelemetry' =
                 DeviceTelemetry (+) SetToBag({TelemetryRow(p, inv[p].telemetryData)})
            /\ inv' = [inv EXCEPT ![p].pc = "spUpdate"]
       ELSE /\ inv' = [inv EXCEPT ![p] = TelemetryCatch(@, "ForeignKeyViolation")]
            /\ UNCHANGED DeviceTelemetry
    /\ UNCHANGED << evaluated, registered, clock, Devices, AutomationRules, DeviceCommands,
                    signalR, iotHub, responses, reports, trace >>
    /\ UNCHANGED << simulator, dbPool >>

\* dbo.InsertTelemetry, UPDATE dbo.Devices SET LastSeen = @Timestamp, IsOnline = 1
UpdatePresence(row, timestamp) ==
    [row EXCEPT !.LastSeen = timestamp, !.IsOnline = TRUE]

SpUpdate(p) ==
    /\ inv[p].pc = "spUpdate"
    /\ LET td == inv[p].telemetryData
       IN Devices' = [d \in DOMAIN Devices |->
                        IF d = td.deviceId
                        THEN UpdatePresence(Devices[d], td.timestamp)
                        ELSE Devices[d]]
    /\ inv' = [inv EXCEPT ![p].pc = "sendToAll"]
    /\ UNCHANGED << evaluated, registered, clock, DeviceTelemetry, AutomationRules, DeviceCommands,
                    signalR, iotHub, responses, reports, trace >>
    /\ UNCHANGED << simulator, dbPool >>

\* a statement of the store throws (connection lost, timeout): in
\* dbo.InsertTelemetry the error reaches the catch of processTelemetry, in the
\* SELECT of the rules the outer catch of checkAutomationRules, in the UPDATE
\* of a rule the catch of that rule
StoreFails(p) ==
    /\ inv[p].pc \in {"spVerify", "spInsert", "spUpdate", "rulesQuery", "update"}
    /\ inv' = [inv EXCEPT ![p] =
                 CASE @.pc = "rulesQuery" -> TelemetryProcessed(@)
                   [] @.pc = "update"     -> RuleCatch(@)
                   [] OTHER               -> TelemetryCatch(@, "StoreError")]
    /\ trace' = [trace EXCEPT ![p] =
                   CASE inv[p].pc = "rulesQuery" ->
                          @ \o << Event("storeError", 0, 0), Event("rulesError", 0, 0) >>
                     [] inv[p].pc = "update" ->
                          @ \o << Event("storeError", CurrentRule(inv[p]), 0),
                                  Event("ruleError", CurrentRule(inv[p]), 0) >>
                     [] OTHER ->
                          Append(@, Event("storeError", 0, 0))]
    /\ UNCHANGED << evaluated, registered, clock, Devices, DeviceTelemetry, AutomationRules, DeviceCommands,
                    signalR, iotHub, responses, reports >>
    /\ UNCHANGED << simulator, dbPool >>

\* (variant of TelemetryUpdate: the payload goes out without the value)
TelemetryUpdateWithoutValue(td) ==
    [deviceId |-> td.deviceId, messageType |-> td.messageType, value |-> Undefined,
     unit |-> td.unit, timestamp |-> td.timestamp,
     additionalData |-> td.additionalData]

\* lines 67-74: the payload of the telemetryUpdate
TelemetryUpdate(td) ==
    [deviceId |-> td.deviceId, messageType |-> td.messageType, value |-> td.value,
     unit |-> td.unit, timestamp |-> td.timestamp,
     additionalData |-> td.additionalData]

\* lines 65-74: signalR.sendToAll('telemetryUpdate', ...)
SendToAll(p) ==
    /\ inv[p].pc = "sendToAll"
    /\ signalR' = signalR (+) SetToBag({[target |-> "telemetryUpdate",
                                         payload |-> TelemetryUpdate(inv[p].telemetryData),
                                         event |-> p]})
    /\ inv' = [inv EXCEPT ![p].pc = "rulesQuery"]
    /\ UNCHANGED << evaluated, registered, clock, Devices, DeviceTelemetry, AutomationRules, DeviceCommands,
                    iotHub, responses, reports, trace >>
    /\ UNCHANGED << simulator, dbPool >>

\* sendToAll throws: the catch of processTelemetry
SendToAllFails(p) ==
    /\ inv[p].pc = "sendToAll"
    /\ inv' = [inv EXCEPT ![p] = TelemetryCatch(@, "SignalRError")]
    /\ UNCHANGED << evaluated, registered, clock, Devices, DeviceTelemetry, AutomationRules, DeviceCommands,
                    signalR, iotHub, responses, reports, trace >>
    /\ UNCHANGED << simulator, dbPool >>

\* -------------------------------------------------------- checkAutomationRules
\* lines 90-95: the active rules, then the loop starts at the first row
RulesQuery(p) ==
    /\ inv[p].pc = "rulesQuery"
    /\ inv' = [inv EXCEPT ![p] = GotoRule([@ EXCEPT !.rules = ActiveRules], 1)]
    /\ UNCHANGED << evaluated, registered, clock, Devices, DeviceTelemetry, AutomationRules, DeviceCommands,
                    signalR, iotHub, responses, reports, trace >>
    /\ UNCHANGED << simulator, dbPool >>

\* the action loop is at its i-th action, or past the last one
GotoAction(l, i) ==
    IF i <= Len(Actions(CurrentRule(l)))
    THEN [l EXCEPT !.pc = "action", !.ai = i]
    ELSE [l EXCEPT !.pc = "update", !.ai = 0]

\* (variant of FirstMatch: the promise evaluateTrigger returns is tested without
\* await, so the first trigger of the list counts as a match)
FirstMatchWithoutAwait(triggers, telemetryData, i) ==
    IF i > Len(triggers) THEN 0 ELSE i

\* lines 103-104: the loop over the triggers from the i-th on, up to the first
\* one that evaluateTrigger accepts; 0 when the loop ends without a match
RECURSIVE FirstMatch(_, _, _)
FirstMatch(triggers, telemetryData, i) ==
    IF i > Len(triggers) THEN 0
    ELSE IF evaluateTrigger(triggers[i], telemetryData) THEN i
    ELSE FirstMatch(triggers, telemetryData, i + 1)

\* the calls of evaluateTrigger that loop makes, in order
TriggerCalls(r, first) ==
    [i \in 1..(IF first = 0 THEN Len(Triggers(r)) ELSE first) |->
       Event("evaluateTrigger", r, i)]

\* lines 99-105: JSON.parse of the two columns of the row, then the triggers
\* against the event.  These statements touch nothing but the locals of the
\* invocation, so they are one step.
EvaluateRule(p) ==
    /\ inv[p].pc = "rule"
    /\ LET r == CurrentRule(inv[p])
           bad == RuleRows[r].TriggerConditions.malformed \/ RuleRows[r].Actions.malformed
           first == FirstMatch(Triggers(r), inv[p].telemetryData, 1)
       IN IF bad
          THEN /\ inv' = [inv EXCEPT ![p] = RuleCatch(@)]
               /\ Log(p, Event("ruleError", r, 0))
          ELSE /\ inv' = [inv EXCEPT ![p] =
                            IF first = 0 THEN GotoRule(@, @.ri + 1)
                            ELSE GotoAction([@ EXCEPT !.ti = first], 1)]
               /\ trace' = [trace EXCEPT ![p] =
                              Append(@, Event("parsed", r, 0)) \o TriggerCalls(r, first)]
    /\ UNCHANGED << evaluated, registered, clock, Devices, DeviceTelemetry, AutomationRules, DeviceCommands,
                    signalR, iotHub, responses, reports >>
    /\ UNCHANGED << simulator, dbPool >>

\* ---------------------------------------------------------------- executeAction
\* what iotHub.send(action.device, JSON.stringify(commandMessage)) hands over
CommandMessage(p, r, i, action) ==
    [device |-> action.device,
     message |-> [command |-> action.command, parameters |-> action.parameters],
     event |-> p, rule |-> r, idx |-> i]

\* lines 108-110 and 159-178: one action of the rule that fired, which returns
ExecuteAction(p) ==
    /\ inv[p].pc = "action"
    /\ LET r == CurrentRule(inv[p])
           i == inv[p].ai
           action == Actions(r)[i]
       IN /\ iotHub' = IF action.type = "device_command"
                       THEN iotHub \cup {CommandMessage(p, r, i, action)}
                       ELSE iotHub
          /\ Log(p, Event("executeAction", r, i))
    /\ inv' = [inv EXCEPT ![p] = GotoAction(@, @.ai + 1)]
    /\ UNCHANGED << evaluated, registered, clock, Devices, DeviceTelemetry, AutomationRules, DeviceCommands,
                    signalR, responses, reports >>
    /\ UNCHANGED << simulator, dbPool >>

\* iotHub.send throws: executeAction has no handler and neither has the loop
\* over the actions, so the error ends in the catch of the rule
SendFails(p) ==
    /\ inv[p].pc = "action"
    /\ Actions(CurrentRule(inv[p]))[inv[p].ai].type = "device_command"
    /\ trace' = [trace EXCEPT ![p] =
                   @ \o << Event("actionFailed", CurrentRule(inv[p]), inv[p].ai),
                           Event("ruleError", CurrentRule(inv[p]), 0) >>]
    /\ inv' = [inv EXCEPT ![p] = RuleCatch(@)]
    /\ UNCHANGED << evaluated, registered, clock, Devices, DeviceTelemetry, AutomationRules, DeviceCommands,
                    signalR, iotHub, responses, reports >>
    /\ UNCHANGED << simulator, dbPool >>

\* (variant of UpdateExecution: an execution at the instant of the previous
\* one is taken for a repetition of it and not counted)
UpdateExecutionOncePerInstant(row, now) ==
    IF row.LastExecuted = now THEN row
    ELSE [row EXCEPT !.LastExecuted = now, !.ExecutionCount = @ + 1]

\* (variant of UpdateExecution: the statement sets the counter only)
UpdateExecutionCountOnly(row, now) ==
    [row EXCEPT !.ExecutionCount = @ + 1]

\* (variant of UpdateExecution: LastExecuted is set by the first execution only)
UpdateExecutionKeepsFirst(row, now) ==
    [row EXCEPT !.LastExecuted = IF @ = NoTime THEN now ELSE @,
                !.ExecutionCount = @ + 1]

\* lines 113-119: SET LastExecuted = GETUTCDATE(), ExecutionCount = ExecutionCount + 1
UpdateExecution(row, now) ==
    [row EXCEPT !.LastExecuted = now, !.ExecutionCount = @ + 1]

\* the UPDATE is one statement of the store; then break
UpdateRule(p) ==
    /\ inv[p].pc = "update"
    /\ LET r == CurrentRule(inv[p])
       IN /\ \E now \in clock..MaxClock :
               /\ ReadClock(now)
               /\ AutomationRules' = [AutomationRules EXCEPT ![r] = UpdateExecution(@, now)]
          /\ Log(p, Event("update", r, 0))
    /\ inv' = [inv EXCEPT ![p] = Break(@)]
    /\ UNCHANGED << evaluated, registered, Devices, DeviceTelemetry, DeviceCommands,
                    signalR, iotHub, responses, reports >>
    /\ UNCHANGED << simulator, dbPool >>

\* ------------------------------------------------------------ sendDeviceCommand
Request(d, u, c) == [deviceId |-> d, userId |-> u, commandType |-> c]

\* a user id no row of dbo.Users carries
UnknownUser == "no-such-user"

Requests ==
    { Request("bedroom-light", SampleUser, "turn_on"),
      Request("bedroom-light", SampleUser, ""),
      Request("bedroom-light", "", "turn_on"),
      Request("", SampleUser, "turn_off"),
      Request(UnknownDevice, SampleUser, "turn_on"),
      Request("bedroom-light", UnknownUser, "turn_on") }

\* (variant of CommandRow: the row is written as already handed over)
CommandRowSent(id, body, now) ==
    [CommandId |-> id, DeviceId |-> body.deviceId, UserId |-> body.userId,
     CommandType |-> body.commandType, Status |-> "sent",
     SentAt |-> now, CompletedAt |-> NoTime, CreatedAt |-> now]

\* the row INSERT INTO dbo.DeviceCommands ... VALUES (..., 'pending') adds
CommandRow(id, body, now) ==
    [CommandId |-> id, DeviceId |-> body.deviceId, UserId |-> body.userId,
     CommandType |-> body.commandType, Status |-> "pending",
     SentAt |-> NoTime, CompletedAt |-> NoTime, CreatedAt |-> now]

\* the response of sendDeviceCommand, with the body of the request it answers
Response(status, id, body) == [status |-> status, commandId |-> id, request |-> body]

\* (variant of Incomplete: the userId is not asked for)
IncompleteButUser(body) == body.deviceId = "" \/ body.commandType = ""

\* line 473: !body.deviceId || !body.userId || !body.commandType
Incomplete(body) == body.deviceId = "" \/ body.userId = "" \/ body.commandType = ""

\* FOREIGN KEY (UserId) REFERENCES dbo.Users(UserId)
UserForeignKey(userId) == \E email \in DOMAIN Users : Users[email] = userId

\* (variant of CommandToHub: the command of the row is handed to the transport)
CommandToHubSends(hub, row) ==
    hub \cup {[device |-> row.DeviceId,
                message |-> [command |-> row.CommandType,
                             parameters |-> [brightness |-> Undefined]],
                event |-> 0, rule |-> 0, idx |-> 0]}

\* line 496, "TODO: Send command to IoT Hub": nothing is handed over
CommandToHub(hub, row) == hub

\* CommandId UNIQUEIDENTIFIER DEFAULT NEWID(): an id no row has carried
NewId == Cardinality({k \in DOMAIN responses : responses[k].status = 200}) + 1

\* lines 462-517; the foreign keys on DeviceId and UserId reject the row of an
\* unknown device or user, which ends in the catch like every other error of
\* the store
sendDeviceCommand(body) ==
    /\ Len(responses) < MaxRequests
    /\ IF Incomplete(body)
       THEN /\ responses' = Append(responses, Response(400, 0, body))
            /\ UNCHANGED << clock, DeviceCommands, iotHub >>
       ELSE IF ~ForeignKey(body.deviceId, Devices) \/ ~UserForeignKey(body.userId)
       THEN /\ responses' = Append(responses, Response(500, 0, body))
            /\ UNCHANGED << clock, DeviceCommands, iotHub >>
       ELSE \E now \in clock..MaxClock :
              LET id == NewId
              IN /\ ReadClock(now)
                 /\ DeviceCommands' = Append(DeviceCommands, CommandRow(id, body, now))
                 /\ iotHub' = CommandToHub(iotHub, CommandRow(id, body, now))
                 /\ responses' = Append(responses, Response(200, id, body))
    /\ UNCHANGED << evaluated, registered, Devices, DeviceTelemetry, AutomationRules,
                    signalR, reports, inv, trace >>
    /\ UNCHANGED << simulator, dbPool >>

\* getDbPool or the INSERT throws: status 500
sendDeviceCommandFails(body) ==
    /\ Len(responses) < MaxRequests
    /\ ~Incomplete(body)
    /\ responses' = Append(responses, Response(500, 0, body))
    /\ UNCHANGED << evaluated, registered, clock, Devices, DeviceTelemetry, AutomationRules, DeviceCommands,
                    signalR, iotHub, reports, inv, trace >>
    /\ UNCHANGED << simulator, dbPool >>

\* ------------------------------------------------------- command lifecycle
\* The source creates command rows and never updates them: the handler of the
\* delivery reports is no part of it.  The transitions below are the ones
\* section 4.4 of the design describes (pending -> sent on handoff, a report
\* applied forward only, a terminal row never touched again).
MaxReports == 3

Terminal == {"completed", "failed"}

\* (variant of ApplyReport: the last report wins)
ApplyReportLastWins(row, status, now) ==
    [row EXCEPT !.Status = status, !.CompletedAt = now]

ApplyReport(row, status, now) ==
    IF row.Status \in Terminal THEN row
    ELSE IF status = "completed" /\ row.Status = "sent"
    THEN [row EXCEPT !.Status = "completed", !.CompletedAt = now]
    ELSE IF status = "failed"
    THEN [row EXCEPT !.Status = "failed", !.CompletedAt = now]
    ELSE row

\* the transport has accepted the command: pending -> sent
DispatchAccepted(c) ==
    /\ c \in 1..Len(DeviceCommands)
    /\ DeviceCommands[c].Status = "pending"
    /\ \E now \in clock..MaxClock :
         /\ ReadClock(now)
         /\ DeviceCommands' = [DeviceCommands EXCEPT ![c] =
                                 [@ EXCEPT !.Status = "sent", !.SentAt = now]]
    /\ UNCHANGED << evaluated, registered, Devices, DeviceTelemetry, AutomationRules,
                    signalR, iotHub, responses, reports, inv, trace >>
    /\ UNCHANGED << simulator, dbPool >>

\* the transport reports the end of a command
Report(c, status) ==
    /\ Len(reports) < MaxReports
    /\ c \in 1..Len(DeviceCommands)
    /\ \E now \in clock..MaxClock :
         /\ ReadClock(now)
         /\ DeviceCommands' = [DeviceCommands EXCEPT ![c] = ApplyReport(@, status, now)]
    /\ reports' = Append(reports, [CommandId |-> c, status |-> status])
    /\ UNCHANGED << evaluated, registered, Devices, DeviceTelemetry, AutomationRules,
                    signalR, iotHub, responses, inv, trace >>
    /\ UNCHANGED << simulator, dbPool >>

\* ------------------------------------------------------------ the registry
\* the devices the administration registers and deletes while events come in
Administered == {"living-room-temp", UnknownDevice}

Registration(d, n, e) == [DeviceId |-> d, DeviceName |-> n, UserEmail |-> e]

Registrations ==
    { Registration(d, "Renamed", e) :
        d \in Administered, e \in {"user@example.com", "nobody@example.com"} }

\* registrations of a device under the email of another user
Reassignments ==
    { Registration(d, "Renamed", "other@example.com") : d \in Administered }

\* (variant of MergeMatched: the registration also marks the device offline)
MergeMatchedOffline(row, name, user) ==
    [row EXCEPT !.DeviceName = name, !.UserId = user, !.IsOnline = FALSE]

\* (variant of MergeMatched: the row is written anew, as for an unknown device)
MergeMatchedAsNew(row, name, user) == DeviceRow(name, user)

\* dbo.RegisterDevice, WHEN MATCHED THEN UPDATE SET DeviceName, DeviceType,
\* Location, UserId, Properties, UpdatedAt
MergeMatched(row, name, user) ==
    [row EXCEPT !.DeviceName = name, !.UserId = user]

\* what a call of dbo.RegisterDevice found and did
Registered(args, result) ==
    [DeviceId |-> args.DeviceId, DeviceName |-> args.DeviceName, result |-> result,
     before |-> IF args.DeviceId \in DOMAIN Devices
                THEN << Devices[args.DeviceId] >> ELSE << >>]

\* dbo.RegisterDevice: the user of the email, then the MERGE, which is one
\* statement of the store (dbo.Users does not change)
RegisterDevice(args) ==
    /\ Len(registered) < MaxRegistrations
    /\ IF args.UserEmail \notin DOMAIN Users
       THEN /\ registered' = Append(registered, Registered(args, "UserNotFound"))
            /\ UNCHANGED Devices
       ELSE LET user == Users[args.UserEmail]
            IN IF args.DeviceId \in DOMAIN Devices
               THEN /\ Devices' = [Devices EXCEPT ![args.DeviceId] =
                                      MergeMatched(@, args.DeviceName, user)]
                    /\ registered' = Append(registered, Registered(args, "updated"))
               ELSE /\ Devices' = Devices @@ (args.DeviceId :> DeviceRow(args.DeviceName, user))
                    /\ registered' = Append(registered, Registered(args, "inserted"))
    /\ UNCHANGED << clock, DeviceTelemetry, AutomationRules, DeviceCommands,
                    signalR, iotHub, responses, reports, inv, trace, evaluated >>
    /\ UNCHANGED << simulator, dbPool >>

\* ON DELETE CASCADE of dbo.DeviceTelemetry: the rows of the device go with it
CascadeTelemetry(T, d) ==
    LET rows == {row \in BagToSet(T) : row.DeviceId # d}
    IN IF rows = {} THEN EmptyBag ELSE [row \in rows |-> T[row]]

\* the administration deletes a device: DELETE FROM dbo.Devices, with the
\* cascades the foreign keys of dbo.DeviceTelemetry and dbo.DeviceCommands declare
DeleteDevice(d) ==
    /\ d \in DOMAIN Devices
    /\ Devices' = [x \in DOMAIN Devices \ {d} |-> Devices[x]]
    /\ DeviceTelemetry' = CascadeTelemetry(DeviceTelemetry, d)
    /\ DeviceCommands' = SelectSeq(DeviceCommands, LAMBDA row : row.DeviceId # d)
    /\ UNCHANGED << clock, AutomationRules, signalR, iotHub, responses, reports,
                    inv, trace, evaluated, registered >>
    /\ UNCHANGED << simulator, dbPool >>

\* ------------------------------------------------------------ rule authoring
\* the rules the authoring switches off while events come in
Authored == {1, 3}

\* the authoring sets IsActive = 0 on a rule: one UPDATE of dbo.AutomationRules
DeactivateRule(r) ==
    /\ AutomationRules[r].IsActive
    /\ AutomationRules' = [AutomationRules EXCEPT ![r].IsActive = FALSE]
    /\ UNCHANGED << clock, Devices, DeviceTelemetry, DeviceCommands, signalR, iotHub,
                    responses, reports, inv, trace, evaluated, registered >>
    /\ UNCHANGED << simulator, dbPool >>

\* ------------------------------------------------ evaluateTrigger on its own
\* the triggers and the events evaluateTrigger is called with
Operators == {">", "<", ">=", "<=", "=="}

TriggerInputs ==
    { SensorThreshold(d, m, op, th) :
        d \in {"living-room-temp", "bedroom-light"}, m \in {"temperature", "off"},
        op \in Operators \cup {"!="}, th \in {20, 25, 30} }
    \cup { DeviceStatus(d, st) :
             d \in {"living-room-temp", "bedroom-light"}, st \in {"temperature", "off"} }
    \cup { TimeTrigger }

TelemetryInputs ==
    [deviceId : {"living-room-temp", "bedroom-light"}, timestamp : {1},
     messageType : {"temperature", "off"}, value : {20, 25, 30, Undefined, NaN}]

\* one call of evaluateTrigger and what it returns (a run makes one call: the
\* function keeps nothing from a call to the next)
evaluateTriggerCall(trigger, telemetryData) ==
    /\ evaluated = << >>
    /\ evaluated' = << [trigger |-> trigger, telemetryData |-> telemetryData,
                        result |-> evaluateTrigger(trigger, telemetryData)] >>
    /\ UNCHANGED << clock, Devices, DeviceTelemetry, AutomationRules, DeviceCommands,
                    signalR, iotHub, responses, reports, inv, trace, registered >>
    /\ UNCHANGED << simulator, dbPool >>

\* ------------------------------------------------ IoTDeviceSimulator, timers
\* the handles the simulator may be given
MaxTimers == 5

\* (variant of AlreadyRunning: startTelemetry never takes the device as running)
AlreadyRunningNever(device) == FALSE

\* part_001 line 357: if (this.isRunning)
AlreadyRunning(device) == device.isRunning

\* IoTDeviceSimulator.startTelemetry (part_001 lines 356-373)
DeviceStartTelemetry(sim, k) ==
    IF AlreadyRunning(sim.devices[k]) THEN sim
    ELSE [sim EXCEPT !.issued = @ + 1,
                     !.timers = @ \cup {sim.issued + 1},
                     !.devices[k].isRunning = TRUE,
                     !.devices[k].telemetryInterval = sim.issued + 1]

\* IoTDeviceSimulator.stopTelemetry (part_001 lines 375-382)
DeviceStopTelemetry(sim, k) ==
    IF sim.devices[k].telemetryInterval # 0
    THEN [sim EXCEPT !.timers = @ \ {sim.devices[k].telemetryInterval},
                     !.devices[k].telemetryInterval = 0,
                     !.devices[k].isRunning = FALSE]
    ELSE sim

\* IoTDeviceSimulator.disconnect (part_001 lines 324-339)
DeviceDisconnect(sim, k) ==
    IF sim.devices[k].telemetryInterval # 0
    THEN [sim EXCEPT !.timers = @ \ {sim.devices[k].telemetryInterval},
                     !.devices[k].telemetryInterval = 0,
                     !.devices[k].isRunning = FALSE]
    ELSE [sim EXCEPT !.devices[k].isRunning = FALSE]

\* for (const [deviceId, device] of this.devices) device.startTelemetry(interval):
\* the devices k..last of the Map
RECURSIVE StartDevices(_, _)
StartDevices(sim, k) ==
    IF k > Len(SimulatedDevices) THEN sim
    ELSE StartDevices(DeviceStartTelemetry(sim, k), k + 1)

\* for (const device of this.devices.values()) device.stopTelemetry()
RECURSIVE StopDevices(_, _)
StopDevices(sim, k) ==
    IF k > Len(SimulatedDevices) THEN sim
    ELSE StopDevices(DeviceStopTelemetry(sim, k), k + 1)

\* Array.from(this.devices.values()).map(device => device.disconnect())
RECURSIVE DisconnectDevices(_, _)
DisconnectDevices(sim, k) ==
    IF k > Len(SimulatedDevices) THEN sim
    ELSE DisconnectDevices(DeviceDisconnect(sim, k), k + 1)

OtherVars ==
    << clock, Devices, DeviceTelemetry, AutomationRules, DeviceCommands, signalR, iotHub,
       responses, reports, inv, trace, evaluated, registered, dbPool >>

\* a call of device.startTelemetry()
startTelemetry(k) ==
    /\ simulator.issued < MaxTimers
    /\ simulator' = DeviceStartTelemetry(simulator, k)
    /\ UNCHANGED OtherVars

\* a call of device.stopTelemetry()
stopTelemetry(k) ==
    /\ simulator' = DeviceStopTelemetry(simulator, k)
    /\ UNCHANGED OtherVars

\* a call of device.disconnect()
disconnect(k) ==
    /\ simulator' = DeviceDisconnect(simulator, k)
    /\ UNCHANGED OtherVars

\* DeviceManager.startTelemetry (part_001 lines 101-137)
ManagerStartTelemetry ==
    /\ simulator.issued + Len(SimulatedDevices) <= MaxTimers
    /\ simulator' = IF simulator.isRunning THEN simulator
                    ELSE StartDevices([simulator EXCEPT !.isRunning = TRUE], 1)
    /\ UNCHANGED OtherVars

\* DeviceManager.stopTelemetry (part_001 lines 139-148)
ManagerStopTelemetry ==
    /\ simulator' = StopDevices([simulator EXCEPT !.isRunning = FALSE], 1)
    /\ UNCHANGED OtherVars

\* DeviceManager.disconnectAllDevices (part_001 lines 150-159)
ManagerDisconnectAll ==
    /\ simulator' = DisconnectDevices(simulator, 1)
    /\ UNCHANGED OtherVars

\* ------------------------------------------- IoTDeviceSimulator, handleCommand
\* request.payload of a handler: the object the device has parsed carries the
\* fields the sender has put in, and a field it has not is undefined
HasPayload(request) == "payload" \in DOMAIN request

\* what handleCommand sends with sendTelemetry (part_001 lines 508-513)
CommandResponse(m, success) ==
    [messageType |-> "command_response", success |-> success, request |-> m]

\* the handler of 'turn_on' (part_001 lines 264-269): isOn is set, then
\* request.payload.brightness is read, which throws a TypeError when
\* request.payload is undefined; the catch of handleCommand (515-517) logs the
\* error and no response is sent
TurnOn(device, m) ==
    IF HasPayload(m.message)
    THEN [device EXCEPT !.isOn = TRUE,
                        !.brightness = IF m.message.payload.brightness \in {0, Undefined}
                                       THEN 100 ELSE m.message.payload.brightness,
                        !.sent = Append(@, CommandResponse(m, TRUE))]
    ELSE [device EXCEPT !.isOn = TRUE]

\* the handler of 'turn_off' (part_001 lines 271-276)
TurnOff(device, m) ==
    [device EXCEPT !.isOn = FALSE, !.brightness = 0,
                   !.sent = Append(@, CommandResponse(m, TRUE))]

\* IoTDeviceSimulator.handleCommand (part_001 lines 490-518), for a message the
\* transport delivers to its device: JSON.parse gives back the object
\* executeAction has passed to JSON.stringify
handleCommand(m) ==
    /\ m \in iotHub \ simulator.handled
    /\ \E k \in DOMAIN SimulatedDevices :
         /\ SimulatedDevices[k] = m.device
         /\ simulator' =
              [simulator EXCEPT
                 !.handled = @ \cup {m},
                 !.devices[k] =
                    CASE m.message.command = "turn_on"  -> TurnOn(@, m)
                      [] m.message.command = "turn_off" -> TurnOff(@, m)
                      [] OTHER -> [@ EXCEPT !.sent = Append(@, CommandResponse(m, FALSE))]]
    /\ UNCHANGED OtherVars

\* ------------------------------------------------------------------ getDbPool
OtherThanPool ==
    << clock, Devices, DeviceTelemetry, AutomationRules, DeviceCommands, signalR, iotHub,
       responses, reports, inv, trace, evaluated, registered, simulator >>

\* lines 25-38: a call of getDbPool up to its await, or to its return when
\* pool is set already
GetDbPool(c) ==
    /\ dbPool.callers[c].pc = "idle"
    /\ dbPool' = IF dbPool.pool = "null"
                 THEN [dbPool EXCEPT !.pool = "connecting", !.callers[c].pc = "connect"]
                 ELSE [dbPool EXCEPT !.callers[c] = [pc |-> "returned", got |-> dbPool.pool]]
    /\ UNCHANGED OtherThanPool

\* pool.connect() resolves: the caller that awaits it returns the pool
ConnectResolves(c) ==
    /\ dbPool.callers[c].pc = "connect"
    /\ dbPool' = [dbPool EXCEPT !.pool = "connected",
                                !.callers[c] = [pc |-> "returned", got |-> "connected"]]
    /\ UNCHANGED OtherThanPool

\* pool.connect() rejects: the caller that awaits it throws, and pool keeps the
\* object that is not connected
ConnectRejects(c) ==
    /\ dbPool.callers[c].pc = "connect"
    /\ dbPool' = [dbPool EXCEPT !.pool = "failed", !.callers[c].pc = "thrown"]
    /\ UNCHANGED OtherThanPool

\* ------------------------------------------------------------- specification
Next ==
    \/ \E p \in Invocations : Normalize(p)
    \/ \E p \in Invocations : SpVerifyDevice(p)
    \/ \E p \in Invocations : SpInsert(p)
    \/ \E p \in Invocations : SpUpdate(p)
    \/ \E p \in Invocations : StoreFails(p)
    \/ \E p \in Invocations : SendToAll(p)
    \/ \E p \in Invocations : SendToAllFails(p)
    \/ \E p \in Invocations : RulesQuery(p)
    \/ \E p \in Invocations : EvaluateRule(p)
    \/ \E p \in Invocations : ExecuteAction(p)
    \/ \E p \in Invocations : SendFails(p)
    \/ \E p \in Invocations : UpdateRule(p)

\* The ingestion pipeline.  It neither reads nor writes dbo.DeviceCommands, and
\* the command API reads of the pipeline's tables only the ids of dbo.Devices,
\* which the pipeline never changes.
Spec == Init /\ [][Next]_vars

\* the pipeline together with the command API
NextAll ==
    \/ Next
    \/ \E body \in Requests : sendDeviceCommand(body)
    \/ \E body \in Requests : sendDeviceCommandFails(body)

SpecAll == Init /\ [][NextAll]_vars


\* the command API with the lifecycle of section 4.4 on top of it
NextLifecycle ==
    \/ \E body \in Requests : sendDeviceCommand(body)
    \/ \E body \in Requests : sendDeviceCommandFails(body)
    \/ \E c \in 1..MaxRequests : DispatchAccepted(c)
    \/ \E c \in 1..MaxRequests : \E status \in Terminal : Report(c, status)

SpecLifecycle == Init /\ [][NextLifecycle]_vars


\* dbo.InsertTelemetry while the administration registers and deletes devices.
\* The statements of processTelemetry after the procedure read and write
\* neither dbo.Devices nor dbo.DeviceTelemetry, so an invocation is followed
\* up to the return of the procedure.  A statement of the store that throws
\* ends its invocation where it stands, which adds no state of the two tables.
NextRegistry ==
    \/ \E p \in Invocations : Normalize(p)
    \/ \E p \in Invocations : SpVerifyDevice(p)
    \/ \E p \in Invocations : SpInsert(p)
    \/ \E p \in Invocations : SpUpdate(p)
    \/ \E args \in Registrations : RegisterDevice(args)
    \/ \E d \in Administered : DeleteDevice(d)

SpecRegistry == Init /\ [][NextRegistry]_vars

\* the command API while the administration registers and deletes devices
NextCommands ==
    \/ \E body \in Requests : sendDeviceCommand(body)
    \/ \E body \in Requests : sendDeviceCommandFails(body)
    \/ \E args \in Registrations : RegisterDevice(args)
    \/ \E d \in Administered : DeleteDevice(d)

SpecCommands == Init /\ [][NextCommands]_vars

\* the two operations of the backend that write dbo.Devices: dbo.InsertTelemetry
\* for the events, which may fail at each of its statements, and
\* dbo.RegisterDevice
NextPresence ==
    \/ \E p \in Invocations : Normalize(p)
    \/ \E p \in Invocations : SpVerifyDevice(p)
    \/ \E p \in Invocations : SpInsert(p)
    \/ \E p \in Invocations : SpUpdate(p)
    \/ \E p \in Invocations : inv[p].pc # "rulesQuery" /\ StoreFails(p)
    \/ \E args \in Registrations : RegisterDevice(args)

SpecPresence == Init /\ [][NextPresence]_vars

\* dbo.InsertTelemetry while devices are registered, also under the email of
\* another user than their owner
NextOwnership ==
    \/ \E p \in Invocations : Normalize(p)
    \/ \E p \in Invocations : SpVerifyDevice(p)
    \/ \E p \in Invocations : SpInsert(p)
    \/ \E p \in Invocations : SpUpdate(p)
    \/ \E args \in Registrations \cup Reassignments : RegisterDevice(args)

SpecOwnership == Init /\ [][NextOwnership]_vars

\* the whole pipeline with dbo.RegisterDevice and the command API
NextBackend ==
    \/ NextAll
    \/ \E args \in Registrations : RegisterDevice(args)

SpecBackend == Init /\ [][NextBackend]_vars

\* the pipeline with the simulated devices at the other end of the transport
NextSimulator ==
    \/ Next
    \/ \E m \in iotHub : handleCommand(m)

SpecSimulator == Init /\ [][NextSimulator]_vars

\* the calls of the simulator that start and stop the telemetry of its devices
NextTimers ==
    \/ \E k \in DOMAIN SimulatedDevices : startTelemetry(k)
    \/ \E k \in DOMAIN SimulatedDevices : stopTelemetry(k)
    \/ \E k \in DOMAIN SimulatedDevices : disconnect(k)
    \/ ManagerStartTelemetry
    \/ ManagerStopTelemetry
    \/ ManagerDisconnectAll

SpecTimers == Init /\ [][NextTimers]_vars

\* concurrent calls of getDbPool from a cold start
NextPool ==
    \/ \E c \in Callers : GetDbPool(c)
    \/ \E c \in Callers : ConnectResolves(c)
    \/ \E c \in Callers : ConnectRejects(c)

SpecPool == Init /\ [][NextPool]_vars

\* the pipeline with rules 3 and 5 active
SpecSunset == InitSunset /\ [][Next]_vars

\* the pipeline while the authoring switches rules off
NextAuthoring ==
    \/ Next
    \/ \E r \in Authored : DeactivateRule(r)

SpecAuthoring == Init /\ [][NextAuthoring]_vars

\* evaluateTrigger, called with every trigger and every event of the inputs
NextTrigger ==
    \E trigger \in TriggerInputs : \E telemetryData \in TelemetryInputs :
      evaluateTriggerCall(trigger, telemetryData)

SpecTrigger == Init /\ [][NextTrigger]_vars

\* ------------------------------------------------------------------ properties
Done(p) == inv[p].pc = "done"

AllDone == \A p \in Invocations : Done(p)

Occurs(p, e) == \E k \in DOMAIN trace[p] : trace[p][k] = e

Count(p, e) == Cardinality({k \in DOMAIN trace[p] : trace[p][k] = e})

\* the rows the rule query of p returned
RulesRead(p) == {inv[p].rules[k] : k \in DOMAIN inv[p].rules}

\* some trigger of rule r matches the event
RuleMatches(r, telemetryData) ==
    \E i \in DOMAIN Triggers(r) : evaluateTrigger(Triggers(r)[i], telemetryData)

Parses(r) == ~RuleRows[r].TriggerConditions.malformed /\ ~RuleRows[r].Actions.malformed

\* p has evaluated rule r, the event matched it and nothing failed on the way
FiredCleanly(p, r) ==
    /\ Done(p)
    /\ r \in RulesRead(p)
    /\ Parses(r)
    /\ RuleMatches(r, inv[p].telemetryData)
    /\ ~Occurs(p, Event("ruleError", r, 0))

Max(S) == CHOOSE x \in S : \A y \in S : y <= x

\* dbo.InsertTelemetry has returned without an error for the event of p
Ingested(p) ==
    /\ inv[p].pc \notin {"start", "spVerify", "spInsert", "spUpdate"}
    /\ inv[p].caught \notin {"DeviceNotFound", "StoreError", "ForeignKeyViolation"}

\* the number of rows of dbo.DeviceTelemetry the event of p has
TelemetryCount(T, p) ==
    LET rows == {row \in BagToSet(T) : row.event = p}
    IN IF rows = {} THEN 0
       ELSE LET row == CHOOSE x \in rows : TRUE IN CopiesIn(row, T)

\* C1: when all the concurrent evaluations have completed, the ExecutionCount
\* of every rule is its initial value (0) plus the number of events that
\* matched it and were evaluated without a failure: no increment is lost,
\* whatever the interleaving.
C1_NoLostUpdate ==
    AllDone =>
      \A r \in RuleIds :
        AutomationRules[r].ExecutionCount =
          Cardinality({p \in Invocations : FiredCleanly(p, r)})

\* C1 witness: every invocation has fired the same rule, more than one did
C1_Witness ==
    /\ AllDone
    /\ \E r \in RuleIds :
         /\ \A p \in Invocations : FiredCleanly(p, r)
         /\ AutomationRules[r].ExecutionCount >= 2

\* C2: once the ingestions of a device have completed, its LastSeen is the
\* greatest timestamp among the events ingested for it.
C2_LastSeenIsMax ==
    AllDone =>
      \A d \in DOMAIN Devices :
        LET T == {inv[p].telemetryData.timestamp :
                    p \in {q \in Invocations :
                             Ingested(q) /\ inv[q].telemetryData.deviceId = d}}
        IN T # {} => Devices[d].LastSeen = Max(T)

\* C3: for an event and an active rule one of whose triggers matches (the
\* store being available), every action of the rule is executed exactly once,
\* the counter is updated exactly once, and no trigger after the first
\* matching one is evaluated.
C3_FiresExactlyOnce ==
    \A p \in Invocations :
      (inv[p].outcome = "processed" /\ ~\E k \in DOMAIN trace[p] : trace[p][k].ev = "storeError") =>
        \A r \in RulesRead(p) :
          (Parses(r) /\ RuleMatches(r, inv[p].telemetryData)) =>
            LET first == CHOOSE i \in DOMAIN Triggers(r) :
                           /\ evaluateTrigger(Triggers(r)[i], inv[p].telemetryData)
                           /\ \A j \in 1..(i - 1) :
                                ~evaluateTrigger(Triggers(r)[j], inv[p].telemetryData)
            IN /\ \A i \in DOMAIN Actions(r) : Count(p, Event("executeAction", r, i)) = 1
               /\ Count(p, Event("update", r, 0)) = 1
               /\ \A i \in DOMAIN Triggers(r) :
                    Count(p, Event("evaluateTrigger", r, i)) = (IF i <= first THEN 1 ELSE 0)

\* C4: at the step that completes the ingestion of a valid event of a
\* registered device, the store having been available, exactly one telemetry
\* row of that event exists and the device is online with LastSeen at or after
\* the timestamp of the event.
C4_IngestPersistsOnce ==
    [][\A p \in Invocations :
         ( /\ inv[p].pc # "done"
           /\ inv'[p].pc = "done"
           /\ inv[p].message.deviceId \in DOMAIN Devices
           /\ inv[p].message.messageType # ""
           /\ inv'[p].caught # "StoreError"
           /\ ~\E k \in DOMAIN trace'[p] : trace'[p][k].ev = "storeError" )
         => LET d == inv[p].message.deviceId
            IN /\ TelemetryCount(DeviceTelemetry', p) = 1
               /\ Devices'[d].IsOnline
               /\ Devices'[d].LastSeen >= inv'[p].telemetryData.timestamp]_vars

\* C5: for an event of a device that is not registered, the handler hands a
\* DeviceNotFound error to its caller and no telemetry row is appended.
C5_UnknownDeviceReturnsError ==
    \A p \in Invocations :
      (Done(p) /\ inv[p].message.deviceId \notin DOMAIN Devices /\ inv[p].caught # "StoreError") =>
        /\ inv[p].thrown = "DeviceNotFound"
        /\ TelemetryCount(DeviceTelemetry, p) = 0

\* C6: every step that changes the ExecutionCount or the LastExecuted of a rule
\* changes both: the count goes up by one and LastExecuted becomes the time of
\* that step, so no state shows one of the two updates without the other.
C6_CountAndTimeTogether ==
    [][\A r \in RuleIds :
         ( \/ AutomationRules'[r].ExecutionCount # AutomationRules[r].ExecutionCount
           \/ AutomationRules'[r].LastExecuted # AutomationRules[r].LastExecuted )
         => /\ AutomationRules'[r].ExecutionCount = AutomationRules[r].ExecutionCount + 1
            /\ AutomationRules'[r].LastExecuted = clock']_vars

\* C6 witness: a rule has been executed, its count and its time are both set
C6_Witness ==
    \E r \in RuleIds :
      /\ AutomationRules[r].ExecutionCount > 0
      /\ AutomationRules[r].LastExecuted # NoTime

\* C7: when the evaluation of an event has ended, every rule the rule query
\* returned has been entered, whatever failed in the rules before it, and a
\* rule that parses, matches and did not fail itself has run all its actions
\* and its counter update.
C7_OtherRulesStillEvaluated ==
    \A p \in Invocations :
      (inv[p].outcome = "processed") =>
        \A r \in RulesRead(p) :
          /\ Occurs(p, Event("parsed", r, 0)) \/ Occurs(p, Event("ruleError", r, 0))
          /\ FiredCleanly(p, r) =>
               /\ \A i \in DOMAIN Actions(r) : Occurs(p, Event("executeAction", r, i))
               /\ Occurs(p, Event("update", r, 0))

\* C7 witness: a rule has failed and a rule after it in the same result has fired
C7_Witness ==
    \E p \in Invocations :
      /\ inv[p].outcome = "processed"
      /\ \E i, j \in DOMAIN inv[p].rules :
           /\ i < j
           /\ Occurs(p, Event("ruleError", inv[p].rules[i], 0))
           /\ Occurs(p, Event("update", inv[p].rules[j], 0))

\* C8: when an action of a rule that fired has failed, every later action of
\* that rule has been executed by the time the evaluation has ended.
C8_LaterActionsStillRun ==
    \A p \in Invocations :
      (inv[p].outcome = "processed") =>
        \A r \in RulesRead(p) :
          \A i \in DOMAIN Actions(r) :
            Occurs(p, Event("actionFailed", r, i)) =>
              \A j \in (i + 1)..Len(Actions(r)) :
                \/ Occurs(p, Event("executeAction", r, j))
                \/ Occurs(p, Event("actionFailed", r, j))

\* C9: for every command the transport has accepted from executeAction there
\* is a DeviceCommands row of that device and command in status sent, with its
\* sent timestamp recorded.
C9_CommandRecordSent ==
    \A m \in iotHub :
      \E c \in DOMAIN DeviceCommands :
        /\ DeviceCommands[c].DeviceId = m.device
        /\ DeviceCommands[c].CommandType = m.message.command
        /\ DeviceCommands[c].Status = "sent"
        /\ DeviceCommands[c].SentAt # NoTime

\* C10: no step changes the status of a command that is completed or failed:
\* a report on such a command is ignored, the first terminal transition wins.
C10_TerminalIsFinal ==
    [][\A c \in DOMAIN DeviceCommands :
         DeviceCommands[c].Status \in Terminal =>
           /\ c \in DOMAIN DeviceCommands'
           /\ DeviceCommands'[c].Status = DeviceCommands[c].Status
           /\ DeviceCommands'[c].CompletedAt = DeviceCommands[c].CompletedAt]_vars

\* C10 witness: a completed command has received a failed report after the
\* completed one (and stayed completed)
C10_Witness ==
    \E c \in DOMAIN DeviceCommands :
      /\ DeviceCommands[c].Status = "completed"
      /\ \E i, j \in DOMAIN reports :
           /\ i < j
           /\ reports[i] = [CommandId |-> c, status |-> "completed"]
           /\ reports[j] = [CommandId |-> c, status |-> "failed"]

\* the steps of the lifecycle of a command
Forward ==
    { << "pending", "sent" >>, << "sent", "completed" >>,
      << "sent", "failed" >>, << "pending", "failed" >> }

Holds(op, difference) ==
    op \in (IF difference > 0 THEN {">", ">="}
            ELSE IF difference < 0 THEN {"<", "<="}
            ELSE {">=", "<=", "=="})

\* C12: a call of evaluateTrigger with a sensor_threshold trigger returns false
\* when the device or the messageType of the trigger differs from the event's,
\* whatever the value; when both are equal, the operator is one of >, <, >=,
\* <=, == and the event carries a value, it returns the comparison of the
\* value with the threshold under that operator (with '>' and 25: true for 30,
\* false for 20 and 25).
C12_ThresholdComparison ==
    \A k \in DOMAIN evaluated :
      LET t == evaluated[k].trigger
          e == evaluated[k].telemetryData
          same == t.device = e.deviceId /\ t.messageType = e.messageType
      IN t.type = "sensor_threshold" =>
           /\ ~same => ~evaluated[k].result
           /\ (same /\ t.operator \in Operators /\ e.value \notin {Undefined, NaN}) =>
                 evaluated[k].result = Holds(t.operator, e.value - t.threshold)
           /\ (same /\ t.operator = ">" /\ t.threshold = 25) =>
                 /\ e.value = 30 => evaluated[k].result
                 /\ e.value \in {20, 25} => ~evaluated[k].result

\* C12 witness: the trigger '>' 25 has been evaluated on a value of 30 of its
\* device and messageType, and has matched
C12_Witness ==
    \E k \in DOMAIN evaluated :
      /\ evaluated[k].trigger = SensorThreshold("living-room-temp", "temperature", ">", 25)
      /\ evaluated[k].telemetryData.deviceId = "living-room-temp"
      /\ evaluated[k].telemetryData.messageType = "temperature"
      /\ evaluated[k].telemetryData.value = 30
      /\ evaluated[k].result

\* C13: a call of evaluateTrigger with a device_status trigger returns true
\* exactly when the device of the trigger is the deviceId of the event and the
\* status of the trigger is its messageType, whatever value the event carries.
C13_StatusMatch ==
    \A k \in DOMAIN evaluated :
      LET t == evaluated[k].trigger
          e == evaluated[k].telemetryData
      IN t.type = "device_status" =>
           evaluated[k].result = (t.device = e.deviceId /\ t.status = e.messageType)

\* C13 witness: a device_status trigger has matched an event of its device and
\* status that carries no value
C13_Witness ==
    \E k \in DOMAIN evaluated :
      LET t == evaluated[k].trigger
          e == evaluated[k].telemetryData
      IN /\ t.type = "device_status"
         /\ t.device = e.deviceId
         /\ t.status = e.messageType
         /\ e.value = Undefined
         /\ evaluated[k].result

\* the events of device d that dbo.InsertTelemetry has taken
IngestedFor(d) ==
    {p \in Invocations : Ingested(p) /\ inv[p].telemetryData.deviceId = d}

\* C14: when sendToAll has thrown for an event, the telemetry row of the event
\* is still there, its device is still online with the LastSeen an ingested
\* event of that device has set, and the handler has returned to its caller
\* without an error.
C14_FanoutFailureKeepsIngestion ==
    \A p \in Invocations :
      inv[p].caught = "SignalRError" =>
        LET d == inv[p].telemetryData.deviceId
        IN /\ TelemetryCount(DeviceTelemetry, p) = 1
           /\ Devices[d].IsOnline
           /\ Devices[d].LastSeen \in {inv[q].telemetryData.timestamp : q \in IngestedFor(d)}
           /\ Done(p)
           /\ inv[p].thrown = ""

\* C14 witness: sendToAll has thrown for an event the store had taken
C14_Witness ==
    \E p \in Invocations :
      /\ Done(p)
      /\ inv[p].caught = "SignalRError"
      /\ TelemetryCount(DeviceTelemetry, p) = 1

\* an error has been logged in the rule evaluation of p
RuleEvaluationFailed(p) ==
    \E k \in DOMAIN trace[p] : trace[p][k].ev \in {"rulesError", "ruleError"}

\* C15: when something has failed in the rule evaluation of an event (the rule
\* query, the parsing of a rule, an action, the counter update), the catch of
\* processTelemetry is not entered, nothing is thrown to the caller of the
\* handler, the telemetry row of the event stays, and the handler ends with
\* its event processed.
C15_RuleFailureStaysInside ==
    \A p \in Invocations :
      RuleEvaluationFailed(p) =>
        /\ inv[p].caught = ""
        /\ inv[p].thrown = ""
        /\ TelemetryCount(DeviceTelemetry, p) = 1
        /\ Done(p) => inv[p].outcome = "processed"

\* C15 witness: in one evaluation a rule did not parse, an action of another
\* one failed and the counter update of a third one failed; the handler has
\* ended
C15_Witness ==
    \E p \in Invocations :
      /\ Done(p)
      /\ \E r1, r2, r3 \in RuleIds :
           /\ ~Parses(r1)
           /\ Occurs(p, Event("ruleError", r1, 0))
           /\ \E i \in DOMAIN Actions(r2) : Occurs(p, Event("actionFailed", r2, i))
           /\ Occurs(p, Event("storeError", r3, 0))

\* C16: when the store has failed in dbo.InsertTelemetry, the handler hands
\* the error to its caller.
C16_StoreFailureSurfaced ==
    \A p \in Invocations :
      (Done(p) /\ inv[p].caught = "StoreError") => inv[p].thrown = "StoreError"

\* C17: a call of dbo.RegisterDevice leaves IsOnline and LastSeen of every
\* device that had a row as they were, at whatever point of the ingestions it
\* runs; when the device had a row and the user exists, the row carries the
\* name of the call afterwards.
C17_RegistrationKeepsPresence ==
    [][Len(registered') > Len(registered) =>
         LET call == registered'[Len(registered')]
         IN /\ \A d \in DOMAIN Devices :
                 /\ d \in DOMAIN Devices'
                 /\ Devices'[d].IsOnline = Devices[d].IsOnline
                 /\ Devices'[d].LastSeen = Devices[d].LastSeen
            /\ (call.DeviceId \in DOMAIN Devices /\ call.result # "UserNotFound") =>
                 Devices'[call.DeviceId].DeviceName = call.DeviceName]_vars

\* C17 witness: a device that was online with a LastSeen has been registered
\* again; it carries the new name and is still online
C17_Witness ==
    \E k \in DOMAIN registered :
      LET call == registered[k]
      IN /\ call.result = "updated"
         /\ call.before[1].IsOnline
         /\ call.before[1].LastSeen # NoTime
         /\ call.DeviceId \in DOMAIN Devices
         /\ Devices[call.DeviceId].DeviceName = call.DeviceName
         /\ Devices[call.DeviceId].IsOnline

\* C18: every row of dbo.DeviceTelemetry carries the id of a row of
\* dbo.Devices, in every state of the ingestions running with registrations
\* and deletions of devices.
C18_TelemetryReferencesDevice ==
    \A row \in BagToSet(DeviceTelemetry) : row.DeviceId \in DOMAIN Devices

\* C18 witness: a device has been deleted between the existence test and the
\* INSERT of an ingestion, and the store has refused the row
C18_Witness ==
    \E p \in Invocations :
      /\ inv[p].caught = "ForeignKeyViolation"
      /\ inv[p].telemetryData.deviceId \notin DOMAIN Devices
      /\ TelemetryCount(DeviceTelemetry, p) = 0

\* the commands iotHub.send has taken for a device
Dispatched(d, c) == {m \in iotHub : m.device = d /\ m.message.command = c}

\* the rows of dbo.DeviceCommands of a device and a command
CommandRows(d, c) ==
    {k \in DOMAIN DeviceCommands :
       DeviceCommands[k].DeviceId = d /\ DeviceCommands[k].CommandType = c}

\* C19: with rule 3 (device_status bedroom-light/off -> device_command
\* bedroom-light turn_on, brightness 70) active at count 0, when the one event
\* of bedroom-light with messageType 'off' has been processed and nothing has
\* failed, rule 3 has been executed once and its count is 1, it has handed
\* exactly one command to the transport, turn_on for bedroom-light, and
\* dbo.DeviceCommands has one turn_on row of bedroom-light for every such
\* command handed over.
C19_EveningLightScenario ==
    \A p \in Invocations :
      ( /\ AllDone
        /\ inv[p].outcome = "processed"
        /\ inv[p].telemetryData.deviceId = "bedroom-light"
        /\ inv[p].telemetryData.messageType = "off"
        /\ \A q \in Invocations \ {p} : ~RuleMatches(3, inv[q].telemetryData)
        /\ ~\E k \in DOMAIN trace[p] : trace[p][k].ev \in {"storeError", "actionFailed"} )
      => /\ Count(p, Event("update", 3, 0)) = 1
         /\ AutomationRules[3].ExecutionCount = 1
         /\ {m \in iotHub : m.event = p /\ m.rule = 3}
              = {CommandMessage(p, 3, 1, DeviceCommandAction("bedroom-light", "turn_on", 70))}
         /\ Cardinality(CommandRows("bedroom-light", "turn_on"))
              = Cardinality(Dispatched("bedroom-light", "turn_on"))

\* C20: when sendToAll has thrown for an event the store had taken, the rules
\* have been evaluated against that event by the time the handler has ended:
\* the rule query has run for it.
C20_FanoutFailureStillEvaluates ==
    \A p \in Invocations :
      (Done(p) /\ inv[p].caught = "SignalRError") =>
        \E k \in DOMAIN trace[p] : trace[p][k].ev \in {"parsed", "ruleError", "rulesError"}

\* sendToAll has published the event of p
Published(p) == \E m \in BagToSet(signalR) : m.event = p

\* checkAutomationRules has started on the event of p
RulesEvaluated(p) ==
    \/ inv[p].rules # << >>
    \/ \E k \in DOMAIN trace[p] :
         trace[p][k].ev \in {"parsed", "evaluateTrigger", "executeAction", "actionFailed",
                             "update", "ruleError", "rulesError"}

\* dbo.InsertTelemetry has failed for the event of p
PersistFailed(p) == inv[p].caught \in {"DeviceNotFound", "StoreError", "ForeignKeyViolation"}

\* C21: in every state, an event that has been published or on which the rule
\* evaluation has started has its telemetry row, and dbo.InsertTelemetry has
\* not failed for it: an event whose persisting failed is neither published
\* nor evaluated against any rule.
C21_DownstreamOnlyAfterAppend ==
    \A p \in Invocations :
      (Published(p) \/ RulesEvaluated(p)) =>
        /\ TelemetryCount(DeviceTelemetry, p) = 1
        /\ ~PersistFailed(p)

\* C21 witness: the handler of an event has ended on an error of the store, of
\* another one on an unknown device; neither event was published or evaluated
C21_Witness ==
    \E p, q \in Invocations :
      /\ Done(p) /\ inv[p].caught = "StoreError"
      /\ Done(q) /\ inv[q].caught = "DeviceNotFound"
      /\ ~Published(p) /\ ~RulesEvaluated(p)
      /\ ~Published(q) /\ ~RulesEvaluated(q)

\* C22: no step executes an action of a rule whose IsActive is false or
\* changes the ExecutionCount or the LastExecuted of such a rule, also when the
\* authoring has switched the rule off while events are being evaluated.
C22_InactiveRuleUntouched ==
    [][\A r \in RuleIds :
         ~AutomationRules[r].IsActive =>
           /\ AutomationRules'[r].ExecutionCount = AutomationRules[r].ExecutionCount
           /\ AutomationRules'[r].LastExecuted = AutomationRules[r].LastExecuted
           /\ {m \in iotHub' : m.rule = r} = {m \in iotHub : m.rule = r}
           /\ \A p \in Invocations :
                Len(trace'[p]) > Len(trace[p]) =>
                  ~(trace'[p][Len(trace'[p])].ev = "executeAction"
                      /\ trace'[p][Len(trace'[p])].rule = r)]_vars

\* C23: every step that runs or fails an action of a rule, hands a command of
\* a rule to the transport or changes the row of a rule in dbo.AutomationRules
\* is a step of an evaluation whose event matches a trigger of that rule: the
\* evaluation of an event that matches no trigger of a rule leaves the rule,
\* its ExecutionCount and its LastExecuted as they were.
C23_NoMatchLeavesRule ==
    [][/\ \A r \in RuleIds :
            AutomationRules'[r] # AutomationRules[r] =>
              \E p \in Invocations :
                /\ inv[p].pc = "update"
                /\ inv'[p] # inv[p]
                /\ CurrentRule(inv[p]) = r
                /\ RuleMatches(r, inv[p].telemetryData)
       /\ \A p \in Invocations :
            \A k \in (Len(trace[p]) + 1)..Len(trace'[p]) :
              trace'[p][k].ev \in {"executeAction", "actionFailed", "update"} =>
                RuleMatches(trace'[p][k].rule, inv[p].telemetryData)
       /\ \A m \in iotHub' \ iotHub :
            RuleMatches(m.rule, inv[m.event].telemetryData)]_vars

\* C23 witness: an evaluation has ended in which every trigger of a rule has
\* been evaluated and none matched; the rule has never been executed
C23_Witness ==
    \E p \in Invocations :
      /\ inv[p].outcome = "processed"
      /\ \E r \in RulesRead(p) :
           /\ Parses(r)
           /\ Triggers(r) # << >>
           /\ ~RuleMatches(r, inv[p].telemetryData)
           /\ \A i \in DOMAIN Triggers(r) : Count(p, Event("evaluateTrigger", r, i)) = 1
           /\ AutomationRules[r].ExecutionCount = 0
           /\ AutomationRules[r].LastExecuted = NoTime

\* C24: a call of evaluateTrigger with a sensor_threshold trigger and an event
\* that carries no value, or a value that is no number, returns false under
\* every operator, also when device and messageType are those of the trigger.
C24_NoNumberNoMatch ==
    \A k \in DOMAIN evaluated :
      LET t == evaluated[k].trigger
          e == evaluated[k].telemetryData
      IN (t.type = "sensor_threshold" /\ e.value \in {Undefined, NaN}) =>
           evaluated[k].result = FALSE

\* C24 witness: the trigger '<' 30 has been evaluated on an event of its device
\* and messageType that carries no value, and has not matched
C24_Witness ==
    \E k \in DOMAIN evaluated :
      LET t == evaluated[k].trigger
          e == evaluated[k].telemetryData
      IN /\ t = SensorThreshold(e.deviceId, e.messageType, "<", 30)
         /\ e.value = Undefined
         /\ evaluated[k].result = FALSE

\* the triggers evaluateTrigger has no case for: a type other than
\* sensor_threshold and device_status, or an operator outside the five
Unknown(trigger) ==
    \/ trigger.type \notin {"sensor_threshold", "device_status"}
    \/ trigger.type = "sensor_threshold" /\ trigger.operator \notin Operators

\* the rules made of such triggers only
UnknownOnly == {r \in RuleIds : Parses(r) /\ \A i \in DOMAIN Triggers(r) : Unknown(Triggers(r)[i])}

\* C25: a rule all of whose triggers are of an unknown type or carry an
\* unknown operator is never executed, whatever events are evaluated against
\* it: none of its actions runs, no command of it is handed over, and its
\* ExecutionCount and LastExecuted stay 0 and NULL.
C25_UnknownTriggersNeverFire ==
    \A r \in UnknownOnly :
      /\ AutomationRules[r].ExecutionCount = 0
      /\ AutomationRules[r].LastExecuted = NoTime
      /\ \A m \in iotHub : m.rule # r
      /\ \A p \in Invocations :
           /\ inv[p].pc \in {"action", "update"} => CurrentRule(inv[p]) # r
           /\ \A k \in DOMAIN trace[p] :
                trace[p][k].rule = r => trace[p][k].ev \in {"parsed", "evaluateTrigger"}

\* C25 witness: the three triggers of rule 5 (type 'time'; operator '!=' on
\* living-room-temp; operator '=' with threshold 30 on bedroom-light/off) have
\* been evaluated against the event of bedroom-light with messageType 'off' and
\* value 30, and rule 5 has not been executed
C25_Witness ==
    \E p \in Invocations :
      /\ inv[p].outcome = "processed"
      /\ inv[p].telemetryData.deviceId = "bedroom-light"
      /\ inv[p].telemetryData.messageType = "off"
      /\ inv[p].telemetryData.value = 30
      /\ 5 \in UnknownOnly
      /\ \A i \in DOMAIN Triggers(5) : Count(p, Event("evaluateTrigger", 5, i)) = 1
      /\ AutomationRules[5].ExecutionCount = 0

\* C26: when the delivery of a device_command action has failed, the failure
\* has been logged, the delivery has been tried once, and dbo.DeviceCommands
\* holds the command of that action, for its device and with its command, in
\* status pending.
C26_FailedDeliveryStaysPending ==
    \A p \in Invocations :
      \A r \in RuleIds :
        \A i \in DOMAIN Actions(r) :
          Occurs(p, Event("actionFailed", r, i)) =>
            /\ Occurs(p, Event("ruleError", r, 0))
            /\ Count(p, Event("actionFailed", r, i)) = 1
            /\ ~Occurs(p, Event("executeAction", r, i))
            /\ \E c \in DOMAIN DeviceCommands :
                 /\ DeviceCommands[c].DeviceId = Actions(r)[i].device
                 /\ DeviceCommands[c].CommandType = Actions(r)[i].command
                 /\ DeviceCommands[c].Status = "pending"

\* C27: no step moves the LastExecuted of a rule to an earlier time, and every
\* execution of a rule sets it to the time of that execution, which is not
\* before any LastExecuted held so far: when concurrent executions of a rule
\* have completed, its LastExecuted is the time of the latest of them.
C27_LastExecutedMovesForward ==
    [][\A r \in RuleIds :
         /\ AutomationRules'[r].LastExecuted >= AutomationRules[r].LastExecuted
         /\ AutomationRules'[r].ExecutionCount # AutomationRules[r].ExecutionCount =>
              /\ AutomationRules'[r].LastExecuted = clock'
              /\ \A q \in RuleIds : AutomationRules[q].LastExecuted <= clock']_vars

\* C27 witness: two evaluations have executed the same rule, the later one
\* after the clock had moved on
C27_Witness ==
    \E r \in RuleIds :
      /\ AutomationRules[r].ExecutionCount >= 2
      /\ AutomationRules[r].LastExecuted = clock
      /\ clock > 1
      /\ \E p \in Invocations : Done(p) /\ Occurs(p, Event("update", r, 0))

Updates(p) ==
    {m \in BagToSet(signalR) : m.target = "telemetryUpdate" /\ m.event = p}

UpdateCount(p) ==
    BagCardinality([m \in Updates(p) |-> CopiesIn(m, signalR)])

\* the payload m carries what the telemetry row carries: the same deviceId,
\* messageType, value and timestamp, the unit (NULL in the row when the event
\* has none) and the additionalData (its JSON text in the row, NULL when the
\* event has none or an empty one)
SameAsRow(m, row) ==
    /\ m.payload.deviceId = row.DeviceId
    /\ m.payload.messageType = row.MessageType
    /\ m.payload.value = row.Value
    /\ m.payload.timestamp = row.Timestamp
    /\ row.Unit = (IF m.payload.unit = Absent THEN Null ELSE m.payload.unit)
    /\ row.AdditionalData =
         (IF m.payload.additionalData \in {Absent, ""} THEN Null
          ELSE JSONStringify(m.payload.additionalData))

\* C29 as stated: once the handler has returned for an event whose telemetry
\* row was stored, exactly one telemetryUpdate has been published for it, and
\* it carries what the row carries.
C29_ExactlyOneUpdate ==
    \A p \in Invocations :
      (Done(p) /\ Ingested(p)) =>
        /\ UpdateCount(p) = 1
        /\ \A m \in Updates(p) :
             \A row \in BagToSet(DeviceTelemetry) : row.event = p => SameAsRow(m, row)

\* C29 amended: at most one telemetryUpdate is published for an event; it is
\* published only for an event whose telemetry row is stored and carries what
\* that row carries; an event whose row is stored has exactly one once
\* sendToAll has returned for it, and none when sendToAll has thrown.
C29_OneUpdateUnlessPublishFails ==
    \A p \in Invocations :
      /\ UpdateCount(p) <= 1
      /\ \A m \in Updates(p) :
           /\ Ingested(p)
           /\ TelemetryCount(DeviceTelemetry, p) = 1
           /\ \A row \in BagToSet(DeviceTelemetry) : row.event = p => SameAsRow(m, row)
      /\ (Ingested(p) /\ inv[p].pc # "sendToAll" /\ inv[p].caught # "SignalRError") =>
           UpdateCount(p) = 1
      /\ inv[p].caught = "SignalRError" =>
           (TelemetryCount(DeviceTelemetry, p) = 1 /\ UpdateCount(p) = 0)

\* C29 witness: the handler has returned for two stored events; one, with a
\* value, a unit and additionalData, has been published once, and sendToAll
\* has thrown for the other, which has its row and no telemetryUpdate
C29_Witness ==
    \E p, q \in Invocations :
      /\ Done(p) /\ Done(q)
      /\ inv[p].message.additionalData = "{battery: 90}"
      /\ UpdateCount(p) = 1
      /\ \E m \in Updates(p) : m.payload.value = 20 /\ m.payload.unit = "C"
      /\ TelemetryCount(DeviceTelemetry, p) = 1
      /\ inv[q].caught = "SignalRError"
      /\ TelemetryCount(DeviceTelemetry, q) = 1
      /\ UpdateCount(q) = 0

\* the automationRuleExecuted messages published for rule r
RuleExecuted(r) ==
    {m \in BagToSet(signalR) :
       m.target = "automationRuleExecuted" /\ m.payload.ruleId = r}

\* C30: once the handler has returned for an event, every rule that has fired
\* for the event (its trigger matched, its actions were run and its execution
\* recorded) has an automationRuleExecuted with its ruleId among the published
\* messages.
C30_RuleExecutedPublished ==
    \A p \in Invocations : \A r \in RuleIds :
      (Done(p) /\ Occurs(p, Event("update", r, 0))) => RuleExecuted(r) # {}

\* the ids of the rows of dbo.Users
KnownUsers == {Users[email] : email \in DOMAIN Users}

\* a request lacks one of deviceId, userId and commandType
SomeMissing(body) == "" \in {body.deviceId, body.userId, body.commandType}

\* the rows a step adds to dbo.DeviceCommands
NewCommands ==
    {k \in DOMAIN DeviceCommands' :
       \A j \in DOMAIN DeviceCommands :
         DeviceCommands[j].CommandId # DeviceCommands'[k].CommandId}

\* a step creates exactly one row, pending, for the request, and answers it
\* with status 200 and the CommandId of that row
CreatedAndAnswered(body) ==
    LET r == responses'[Len(responses')]
    IN /\ r.status = 200
       /\ Len(DeviceCommands') = Len(DeviceCommands) + 1
       /\ Cardinality(NewCommands) = 1
       /\ \A k \in NewCommands :
            /\ DeviceCommands'[k].Status = "pending"
            /\ DeviceCommands'[k].CommandId = r.commandId
            /\ DeviceCommands'[k].DeviceId = body.deviceId
            /\ DeviceCommands'[k].UserId = body.userId
            /\ DeviceCommands'[k].CommandType = body.commandType

\* C31 as stated: a call of sendDeviceCommand whose store is available answers
\* a request that lacks deviceId, userId or commandType with status 400 and
\* leaves dbo.DeviceCommands as it is, and answers every other request with
\* status 200 and the CommandId of the one pending row it has created.
C31_CreatesWhenComplete ==
    [][\A body \in Requests :
         sendDeviceCommand(body) =>
           IF SomeMissing(body)
           THEN /\ responses'[Len(responses')].status = 400
                /\ DeviceCommands' = DeviceCommands
           ELSE CreatedAndAnswered(body)]_vars

\* C31 amended: as above for a request that lacks a field; a complete request
\* is answered with status 200 and the CommandId of the one pending row created
\* when its device and its user have a row in the store, and with status 500
\* and no row created when one of them has none.
C31_CreatesWhenCompleteAndKnown ==
    [][\A body \in Requests :
         sendDeviceCommand(body) =>
           IF SomeMissing(body)
           THEN /\ responses'[Len(responses')].status = 400
                /\ DeviceCommands' = DeviceCommands
           ELSE IF body.deviceId \in DOMAIN Devices /\ body.userId \in KnownUsers
           THEN CreatedAndAnswered(body)
           ELSE /\ responses'[Len(responses')].status = 500
                /\ DeviceCommands' = DeviceCommands]_vars

\* C31 witness: a complete request for a device that was registered before it
\* has been answered with 200 and the id of its pending row
C31_Witness ==
    \E k \in DOMAIN responses : \E c \in DOMAIN DeviceCommands :
      /\ responses[k].status = 200
      /\ responses[k].request.deviceId = UnknownDevice
      /\ DeviceCommands[c].CommandId = responses[k].commandId
      /\ DeviceCommands[c].Status = "pending"
      /\ Len(DeviceCommands) = 1

\* the events for which an action of rule r has been executed
ActionsRan(r) ==
    {p \in Invocations :
       \E i \in DOMAIN Actions(r) : Occurs(p, Event("executeAction", r, i))}

\* C32: once the handler has returned for an event for which an action of a
\* rule was executed, the execution of the rule has been recorded for that
\* event; and when all handlers have returned, the ExecutionCount of every
\* rule is the number of events for which its actions ran.
C32_ActionsRunAreCounted ==
    \A r \in RuleIds :
      /\ \A p \in ActionsRan(r) : Done(p) => Occurs(p, Event("update", r, 0))
      /\ AllDone => AutomationRules[r].ExecutionCount = Cardinality(ActionsRan(r))

\* C33: in every state a device with a telemetry row is online and has a
\* LastSeen: the row of an event and the presence it sets appear together.
C33_RowMeansOnline ==
    \A row \in BagToSet(DeviceTelemetry) :
      /\ row.DeviceId \in DOMAIN Devices
      /\ Devices[row.DeviceId].IsOnline
      /\ Devices[row.DeviceId].LastSeen # NoTime

\* C34: in every state, every row of dbo.DeviceCommands the command API has
\* created is pending with no SentAt and no CompletedAt, its caller has been
\* answered with status 200 and its CommandId, and the device transport has
\* been handed no command for it (what it is handed stems from the action of a
\* rule).
C34_CreatedStaysPending ==
    \A c \in DOMAIN DeviceCommands :
      LET row == DeviceCommands[c]
      IN /\ row.Status = "pending"
         /\ row.SentAt = NoTime
         /\ row.CompletedAt = NoTime
         /\ \E k \in DOMAIN responses :
              responses[k].status = 200 /\ responses[k].commandId = row.CommandId
         /\ ~\E m \in iotHub :
              /\ m.rule \notin RuleIds
              /\ m.device = row.DeviceId /\ m.message.command = row.CommandType

\* C34 witness: a command has been created and answered with 200, and the
\* administration has deleted another device since the store was set up
C34_Witness ==
    /\ Len(DeviceCommands) = 1
    /\ DeviceCommands[1].Status = "pending"
    /\ \E k \in DOMAIN responses :
         responses[k].status = 200 /\ responses[k].commandId = DeviceCommands[1].CommandId
    /\ "living-room-temp" \notin DOMAIN Devices
    /\ iotHub = {}

\* C35: no step sets a device that is online back to offline or removes it.
C35_OnlineIsStable ==
    [][\A d \in DOMAIN Devices :
         Devices[d].IsOnline =>
           (d \in DOMAIN Devices' /\ Devices'[d].IsOnline)]_vars

\* C35 witness: a device an event had marked online has been registered again
\* and is online
C35_Witness ==
    \E k \in DOMAIN registered :
      /\ registered[k].result = "updated"
      /\ registered[k].before[1].IsOnline
      /\ Devices[registered[k].DeviceId].IsOnline
      /\ Devices[registered[k].DeviceId].DeviceName = registered[k].DeviceName

\* C36: a call of dbo.RegisterDevice for a device that has a row leaves every
\* field of the row but the descriptive ones as it was: the UserId, IsOnline
\* and LastSeen of every device are the same before and after the call.
C36_RegistrationKeepsOwner ==
    [][Len(registered') > Len(registered) =>
         \A d \in DOMAIN Devices :
           /\ d \in DOMAIN Devices'
           /\ Devices'[d].UserId = Devices[d].UserId
           /\ Devices'[d].IsOnline = Devices[d].IsOnline
           /\ Devices'[d].LastSeen = Devices[d].LastSeen]_vars

\* C37: the step in which the simulated device handles a turn_on command
\* executeAction has sent with parameters {brightness: b}, b in 1..100, leaves
\* the device with isOn true and brightness b, and the device sends one
\* command_response for it.
C37_TurnOnReachesDevice ==
    [][\A m \in iotHub :
         (/\ m \in simulator'.handled \ simulator.handled
          /\ m.message.command = "turn_on"
          /\ m.message.parameters.brightness \in 1..100) =>
           \E k \in DOMAIN SimulatedDevices :
             /\ SimulatedDevices[k] = m.device
             /\ simulator'.devices[k].isOn
             /\ simulator'.devices[k].brightness = m.message.parameters.brightness
             /\ simulator'.devices[k].sent =
                  Append(simulator.devices[k].sent, CommandResponse(m, TRUE))]_vars

\* C38: in every state reached by calls that start, stop and disconnect the
\* devices, a device is running exactly when it holds the handle of an
\* installed timer, no two devices hold the same handle, and every installed
\* timer is the one its device holds: at most one timer per device.
C38_RunningIffOneTimer ==
    /\ \A k \in DOMAIN SimulatedDevices :
         LET device == simulator.devices[k]
         IN /\ device.isRunning <=> device.telemetryInterval # 0
            /\ device.telemetryInterval # 0 => device.telemetryInterval \in simulator.timers
    /\ \A t \in simulator.timers :
         Cardinality({k \in DOMAIN SimulatedDevices :
                        simulator.devices[k].telemetryInterval = t}) = 1
    /\ Cardinality(simulator.timers) <= Len(SimulatedDevices)

\* C38 witness: a device has been started, stopped and started again, and has
\* been asked to start while running; it runs with the one timer of its
\* second start, while the other devices have been started and stopped
C38_Witness ==
    /\ simulator.devices[1].isRunning
    /\ simulator.devices[1].telemetryInterval = 2
    /\ simulator.timers = {2}
    /\ simulator.issued = 4
    /\ ~simulator.devices[2].isRunning
    /\ ~simulator.devices[3].isRunning
    /\ simulator.isRunning

\* C39: a call of getDbPool that has returned has returned a pool whose
\* connect() had completed successfully.
C39_ReturnedPoolIsConnected ==
    \A c \in Callers :
      dbPool.callers[c].pc = "returned" => dbPool.callers[c].got = "connected"

====
